---- MODULE Spec2Model ----
(***************************************************************************)
(* Model of the room-based WebSocket broadcast core of ProSkills-BE:       *)
(* backend/services/websocket.py (WebSocketManager) and the /ws endpoint   *)
(* of backend/main.py.                                                     *)
(*                                                                         *)
(* The server runs on one asyncio event loop: code between two awaits is   *)
(* one atomic step, and every await is a point where other tasks may run.  *)
(* Each action below is one such step of one task.                         *)
(***************************************************************************)
EXTENDS Integers, Sequences, FiniteSets, TLC

\* Number of WebSocket connections that ever open.
NumConns == 2
\* Number of broadcast_to_room calls that are ever made.
MaxBroadcasts == 1
\* Number of commands a peer can leave unread when it closes its transport.
MaxQueued == 1

Conns == 1..NumConns
Tasks == 1..MaxBroadcasts
\* Room ids used by the clients and the producers ("course_<id>", "user_<id>").
Rooms == {"course_7", "user_42"}
\* User ids the clients send in join_user_room.
UserIds == {0, 42}
\* The calls the producers make: rate_course broadcasts "rating_updated" to the
\* course's room, grade_assignment broadcasts "assignment_graded" to the student's.
Calls == {<<"course_7", "rating_updated">>, <<"user_42", "assignment_graded">>}
\* In place of a room id in a call of broadcast(), which iterates the registry.
All == "*"
\* Placeholder for "no connection".
NoConn == 0

VARIABLES
    active_connections,  \* WebSocketManager.active_connections: list of connections
    room_connections,    \* WebSocketManager.room_connections: dict room id -> list
    pc,                  \* position of each connection's websocket_endpoint task
    bc,                  \* local state of each broadcast_to_room call
    hist,                \* history of each broadcast_to_room call (not program state)
    net,                 \* each connection's transport, as the server meets it
    ack,                 \* the acknowledgement each receive loop is sending
    req                  \* the producer requests (HTTP handlers that broadcast)

\* What a specification of the manager alone leaves out.
rest == <<ack, req>>

vars == <<active_connections, room_connections, pc, bc, hist, net, ack, req>>

----------------------------------------------------------------------------
(* Python list helpers *)

\* x in s
Contains(s, x) == \E i \in 1..Len(s) : s[i] = x

\* The elements of a list, as a set.
Elems(s) == {s[i] : i \in 1..Len(s)}

\* Index of the first occurrence of x in s (x occurs in s).
FirstIndex(s, x) == CHOOSE i \in 1..Len(s) : s[i] = x /\ \A j \in 1..(i-1) : s[j] # x

\* list.remove(x) for x in the list: removes the first occurrence.
RemoveFirst(s, x) ==
    LET k == FirstIndex(s, x)
    IN  [i \in 1..(Len(s)-1) |-> IF i < k THEN s[i] ELSE s[i+1]]

\* The members of room r in index rc (empty when the room is unknown).
MembersOf(rc, r) == IF r \in DOMAIN rc THEN Elems(rc[r]) ELSE {}

\* The rooms of index rc that list ws.
RoomsOf(rc, ws) == {r \in DOMAIN rc : Contains(rc[r], ws)}

\* The rooms of index rc whose only entry is ws.
SoleRoomsOf(rc, ws) == {r \in DOMAIN rc : rc[r] = <<ws>>}

----------------------------------------------------------------------------
(* WebSocketManager: the synchronous methods, as functions of the state *)

\* Variant of JoinRoom that appends without the membership test.
JoinRoomNoCheck(rc, ws, r) ==
    LET base == IF r \in DOMAIN rc THEN rc[r] ELSE <<>>
    IN  [x \in DOMAIN rc \cup {r} |-> IF x = r THEN Append(base, ws) ELSE rc[x]]

\* join_room(websocket, room_id)
JoinRoom(rc, ws, r) ==
    LET base == IF r \in DOMAIN rc THEN rc[r] ELSE <<>>
        new  == IF Contains(base, ws) THEN base ELSE Append(base, ws)
    IN  [x \in DOMAIN rc \cup {r} |-> IF x = r THEN new ELSE rc[x]]

\* Variant of LeaveRoom that keeps the emptied room in the index.
LeaveRoomNoPrune(rc, ws, r) ==
    IF r \in DOMAIN rc /\ Contains(rc[r], ws)
    THEN [rc EXCEPT ![r] = RemoveFirst(rc[r], ws)]
    ELSE rc

\* Variant of LeaveRoom that drops the last entry of the room when ws is not a
\* member of it.
LeaveRoomPop(rc, ws, r) ==
    IF r \notin DOMAIN rc
    THEN rc
    ELSE LET l2 == IF Contains(rc[r], ws) THEN RemoveFirst(rc[r], ws)
                   ELSE SubSeq(rc[r], 1, Len(rc[r]) - 1)
         IN  IF l2 = <<>>
             THEN [x \in DOMAIN rc \ {r} |-> rc[x]]
             ELSE [rc EXCEPT ![r] = l2]

\* leave_room(websocket, room_id)
LeaveRoom(rc, ws, r) ==
    IF r \notin DOMAIN rc
    THEN rc
    ELSE LET l2 == IF Contains(rc[r], ws) THEN RemoveFirst(rc[r], ws) ELSE rc[r]
         IN  IF l2 = <<>>
             THEN [x \in DOMAIN rc \ {r} |-> rc[x]]
             ELSE [rc EXCEPT ![r] = l2]

\* Variant of Disconnect that stops at the first room it cleans.
DisconnectFirstRoom(ac, rc, ws) ==
    LET hit == {r \in DOMAIN rc : Contains(rc[r], ws)}
        one == IF hit = {} THEN {} ELSE {CHOOSE r \in hit : TRUE}
        gone == {r \in one : RemoveFirst(rc[r], ws) = <<>>}
    IN  [active |-> IF Contains(ac, ws) THEN RemoveFirst(ac, ws) ELSE ac,
         rooms  |-> [r \in DOMAIN rc \ gone |->
                        IF r \in one THEN RemoveFirst(rc[r], ws) ELSE rc[r]]]

\* Variant of Disconnect that deletes every room it cleans, emptied or not.
DisconnectDropsRooms(ac, rc, ws) ==
    LET hit == {r \in DOMAIN rc : Contains(rc[r], ws)}
    IN  [active |-> IF Contains(ac, ws) THEN RemoveFirst(ac, ws) ELSE ac,
         rooms  |-> [r \in DOMAIN rc \ hit |-> rc[r]]]

\* Variant of Disconnect that deletes from the registry by position, the last
\* position standing for "not listed".
DisconnectByIndex(ac, rc, ws) ==
    LET hit  == {r \in DOMAIN rc : Contains(rc[r], ws)}
        gone == {r \in hit : RemoveFirst(rc[r], ws) = <<>>}
    IN  [active |-> IF Contains(ac, ws) THEN RemoveFirst(ac, ws)
                    ELSE IF ac = <<>> THEN ac ELSE SubSeq(ac, 1, Len(ac) - 1),
         rooms  |-> [r \in DOMAIN rc \ gone |->
                        IF r \in hit THEN RemoveFirst(rc[r], ws) ELSE rc[r]]]

\* disconnect(websocket)
Disconnect(ac, rc, ws) ==
    LET hit  == {r \in DOMAIN rc : Contains(rc[r], ws)}
        gone == {r \in hit : RemoveFirst(rc[r], ws) = <<>>}
    IN  [active |-> IF Contains(ac, ws) THEN RemoveFirst(ac, ws) ELSE ac,
         rooms  |-> [r \in DOMAIN rc \ gone |->
                        IF r \in hit THEN RemoveFirst(rc[r], ws) ELSE rc[r]]]

\* "for websocket in disconnected: self.disconnect(websocket)"
RECURSIVE DisconnectAll(_, _, _)
DisconnectAll(ac, rc, dl) ==
    IF dl = <<>>
    THEN [active |-> ac, rooms |-> rc]
    ELSE LET d == Disconnect(ac, rc, Head(dl))
         IN  DisconnectAll(d.active, d.rooms, Tail(dl))

\* f"user_{user_id}"
UserRoom(u) == "user_" \o ToString(u)

\* "if user_id:" for an integer user_id.
Truthy(u) == u # 0

\* The join_user_room branch of the receive loop, as a function of the index.
JoinUserRoom(rc, ws, u) ==
    IF Truthy(u) THEN JoinRoom(rc, ws, UserRoom(u)) ELSE rc

----------------------------------------------------------------------------
(* Bookkeeping *)

\* The effect of a change of the registry and the index, made by another task,
\* on a call that is suspended in a send: a room deleted from the index leaves a
\* broadcast_to_room call iterating a list object that is empty and no longer the
\* room's; the history follows the membership of the call's room, or the registry
\* for a call of broadcast().
Observe(b, acNew, rcNew) ==
    IF bc[b].pc # "send"
    THEN [bc |-> bc[b], hist |-> hist[b]]
    ELSE IF bc[b].room = All
    THEN [bc   |-> bc[b],
          hist |-> [hist[b] EXCEPT
                        !.stable = @ \cap Elems(acNew),
                        !.quiet  = @ /\ acNew = active_connections]]
    ELSE [bc   |-> [bc[b] EXCEPT !.detached = @ \/ bc[b].room \notin DOMAIN rcNew],
          hist |-> [hist[b] EXCEPT
                        !.stable = @ \cap MembersOf(rcNew, bc[b].room),
                        !.quiet  = @ /\ rcNew = room_connections]]

\* A step of a task other than the broadcast calls changes the registry to acNew
\* and the index to rcNew.
ManagerBecomes(acNew, rcNew) ==
    /\ active_connections' = acNew
    /\ room_connections' = rcNew
    /\ bc'   = [b \in DOMAIN bc |-> Observe(b, acNew, rcNew).bc]
    /\ hist' = [b \in DOMAIN bc |-> Observe(b, acNew, rcNew).hist]

\* A step of a task other than the broadcast calls changes the index to rcNew.
IndexBecomes(rcNew) == ManagerBecomes(active_connections, rcNew)

----------------------------------------------------------------------------
(* websocket_endpoint: one task per connection *)

\* Some broadcast_to_room call has finished its cleanup and is returning: no await
\* lies between the cleanup and the return, so no other task runs in that state.
Returning == \E b \in DOMAIN bc : bc[b].pc = "done"

\* A broadcast_to_room call that has not started.
IdleCall == [pc |-> "idle", room |-> "", msg |-> "", idx |-> 0, cur |-> NoConn,
             detached |-> FALSE, disconnected |-> <<>>]

\* The history of a call: the members of its room when it started, those that have
\* been members ever since, whether no other task has changed the index since, the
\* send attempts it made, the connections whose send failed, and the calls that
\* were suspended in a send when it started.
NoHistory == [start |-> {}, stable |-> {}, quiet |-> TRUE, sent |-> <<>>,
              failed |-> {}, after |-> {}]

\* The calls that are suspended in a send.
Suspended == {x \in DOMAIN bc : bc[x].pc = "send"}

\* A transport whose peer reads what the server sends and has not closed it, with
\* no command left behind by a peer that is gone.
LinkUp == [link |-> "up", queued |-> 0]

\* No acknowledgement is being sent.
NoMsg == [event |-> "none"]

\* receive_json can return a message: the peer has not closed the transport, or
\* commands it sent before closing are still to be read.
CanRead(c) == net[c].link # "down" \/ net[c].queued > 0

\* receive_json returns a message of connection c.
Consume(c) == [net EXCEPT ![c].queued = IF @ > 0 THEN @ - 1 ELSE 0]

\* send_json to connection c can complete (return or raise): the peer is reading,
\* or the transport is closed.
CanSend(c) == net[c].link # "stalled"

\* A producer request that has not arrived.
IdleReq == [kind |-> "", pc |-> "idle", committed |-> FALSE, raised |-> FALSE,
            response |-> ""]

Init ==
    /\ active_connections = <<>>
    /\ room_connections = <<>>
    /\ pc = [c \in Conns |-> "new"]
    /\ bc = [b \in Tasks |-> IdleCall]
    /\ hist = [b \in Tasks |-> NoHistory]
    /\ net = [c \in Conns |-> LinkUp]
    /\ ack = [c \in Conns |-> NoMsg]
    /\ req = [p \in Tasks |-> IdleReq]

\* manager.connect: accept succeeded, the connection is appended to the registry
\* and the task blocks in receive_json.
Connect(c) ==
    /\ pc[c] = "new"
    /\ ~Returning
    /\ ManagerBecomes(Append(active_connections, c), room_connections)
    /\ pc' = [pc EXCEPT ![c] = "open"]
    /\ UNCHANGED net

\* {"command": "join_room", "room_id": r}: join, then await the acknowledgement.
RecvJoinRoom(c, r) ==
    /\ pc[c] = "open"
    /\ ~Returning
    /\ CanRead(c)
    /\ net' = Consume(c)
    /\ IndexBecomes(JoinRoom(room_connections, c, r))
    /\ pc' = [pc EXCEPT ![c] = "acking"]

\* {"command": "leave_room", "room_id": r}: leave, then await the acknowledgement.
RecvLeaveRoom(c, r) ==
    /\ pc[c] = "open"
    /\ ~Returning
    /\ CanRead(c)
    /\ net' = Consume(c)
    /\ IndexBecomes(LeaveRoom(room_connections, c, r))
    /\ pc' = [pc EXCEPT ![c] = "acking"]

\* {"command": "join_user_room", "user_id": u}: join the user's room and await the
\* acknowledgement; with a user_id that is falsy the branch does nothing.
RecvJoinUserRoom(c, u) ==
    /\ pc[c] = "open"
    /\ ~Returning
    /\ CanRead(c)
    /\ net' = Consume(c)
    /\ IndexBecomes(JoinUserRoom(room_connections, c, u))
    /\ pc' = [pc EXCEPT ![c] = IF Truthy(u) THEN "acking" ELSE "open"]

\* A JSON object with no recognized command, or with a missing or empty id:
\* nothing happens and the loop awaits the next message.
RecvIgnored(c) ==
    /\ pc[c] = "open"
    /\ ~Returning
    /\ CanRead(c)
    /\ net' = Consume(c)
    /\ UNCHANGED <<active_connections, room_connections, pc, bc, hist>>

\* The send of send_personal_message returns: the loop awaits the next message.
AckDone(c) ==
    /\ pc[c] = "acking"
    /\ ~Returning
    /\ CanSend(c)
    /\ pc' = [pc EXCEPT ![c] = "open"]
    /\ UNCHANGED <<active_connections, room_connections, bc, hist, net>>

\* The send of send_personal_message raises: the exception is printed inside
\* send_personal_message, which returns, and the loop awaits the next message.
AckFail(c) ==
    /\ pc[c] = "acking"
    /\ ~Returning
    /\ CanSend(c)
    /\ pc' = [pc EXCEPT ![c] = "open"]
    /\ UNCHANGED <<active_connections, room_connections, bc, hist, net>>

\* Variant of EndLoop that ends the task without the cleanup.
EndLoopNoCleanup(c) ==
    /\ pc' = [pc EXCEPT ![c] = "closed"]
    /\ net' = [net EXCEPT ![c] = [link |-> "down", queued |-> 0]]
    /\ UNCHANGED <<active_connections, room_connections, bc, hist>>

\* Either except clause of the receive loop: manager.disconnect, then the task
\* ends and the server closes the transport.
EndLoop(c) ==
    /\ LET d == Disconnect(active_connections, room_connections, c)
       IN  ManagerBecomes(d.active, d.rooms)
    /\ pc' = [pc EXCEPT ![c] = "closed"]
    /\ net' = [net EXCEPT ![c] = [link |-> "down", queued |-> 0]]

\* receive_json raises WebSocketDisconnect: the peer has closed the transport and
\* nothing it sent is left to read.
RecvDisconnect(c) ==
    /\ pc[c] = "open"
    /\ ~Returning
    /\ net[c].queued = 0
    /\ EndLoop(c)

\* receive_json raises on a text that is not JSON, or data.get raises on a JSON
\* value that is not an object: the "except Exception" clause runs.
RecvBadPayload(c) ==
    /\ pc[c] = "open"
    /\ ~Returning
    /\ CanRead(c)
    /\ EndLoop(c)

----------------------------------------------------------------------------
(* broadcast_to_room: one task per call *)

\* One send attempt, as the history records it.
Attempt(ws, e) == [to |-> ws, payload |-> e]

\* Variant of IterList: the registry, as broadcast() iterates it.
IterListRegistry(b, r) == active_connections

\* The list object the for loop of call b (on room r) iterates: the room's own
\* list, not a copy, for as long as that list is the one in the index; after the
\* room was deleted the loop is left with the emptied list object. A call of
\* broadcast() iterates the registry itself.
IterList(b, r) ==
    IF r = All THEN active_connections
    ELSE IF bc[b].detached THEN <<>> ELSE room_connections[r]

\* Variant of OnSendError that forgets the failed connection.
OnSendErrorForget(rec) == rec

\* "except Exception: ... disconnected.append(websocket)"
OnSendError(rec) == [rec EXCEPT !.disconnected = Append(@, rec.cur)]

\* The loop is exhausted: every collected connection is disconnected and the call
\* returns.
Finish(b, rec, h) ==
    LET d == DisconnectAll(active_connections, room_connections, rec.disconnected)
    IN  /\ active_connections' = d.active
        /\ room_connections' = d.rooms
        /\ bc' = [x \in DOMAIN bc |->
                    IF x = b THEN [rec EXCEPT !.pc = "done", !.cur = NoConn]
                    ELSE Observe(x, d.active, d.rooms).bc]
        /\ hist' = [x \in DOMAIN bc |->
                      IF x = b THEN h ELSE Observe(x, d.active, d.rooms).hist]

\* Variant of Fetch whose iterator does not advance.
FetchNoAdvance(b, rec, h) ==
    LET lst == IterList(b, rec.room)
    IN  IF rec.idx < Len(lst)
        THEN LET ws == lst[rec.idx + 1]
             IN  /\ bc' = [bc EXCEPT ![b] = [rec EXCEPT !.pc = "send", !.cur = ws]]
                 /\ hist' = [hist EXCEPT ![b] =
                                [h EXCEPT !.sent = Append(@, Attempt(ws, rec.msg))]]
                 /\ UNCHANGED <<active_connections, room_connections>>
        ELSE Finish(b, rec, h)

\* Variant of Fetch that disconnects what has been collected so far before each
\* send.
FetchAfterCleanup(b, rec, h) ==
    LET lst == IterList(b, rec.room)
        d   == DisconnectAll(active_connections, room_connections, rec.disconnected)
    IN  IF rec.idx < Len(lst)
        THEN LET ws == lst[rec.idx + 1]
             IN  /\ bc' = [bc EXCEPT ![b] = [rec EXCEPT !.pc = "send", !.cur = ws,
                                                        !.idx = @ + 1]]
                 /\ hist' = [hist EXCEPT ![b] =
                                [h EXCEPT !.sent = Append(@, Attempt(ws, rec.msg))]]
                 /\ active_connections' = d.active
                 /\ room_connections' = d.rooms
        ELSE Finish(b, rec, h)

\* The for loop asks its iterator for the next element: the iterator holds the
\* list object and an index; it yields lst[idx] while idx < len(lst), and the body
\* calls send_json on it and suspends.
Fetch(b, rec, h) ==
    LET lst == IterList(b, rec.room)
    IN  IF rec.idx < Len(lst)
        THEN LET ws == lst[rec.idx + 1]
             IN  /\ bc' = [bc EXCEPT ![b] = [rec EXCEPT !.pc = "send", !.cur = ws,
                                                        !.idx = @ + 1]]
                 /\ hist' = [hist EXCEPT ![b] =
                                [h EXCEPT !.sent = Append(@, Attempt(ws, rec.msg))]]
                 /\ UNCHANGED <<active_connections, room_connections>>
        ELSE Finish(b, rec, h)

\* Variant of StartBroadcast that enters an unknown room into the index.
StartBroadcastSetDefault(b, r, e) ==
    /\ bc[b].pc = "idle"
    /\ ~Returning
    /\ UNCHANGED <<pc, net>>
    /\ IF r \notin DOMAIN room_connections
       THEN /\ bc' = [bc EXCEPT ![b] = [@ EXCEPT !.pc = "done", !.room = r, !.msg = e]]
            /\ room_connections' =
                   [x \in DOMAIN room_connections \cup {r} |->
                       IF x = r THEN <<>> ELSE room_connections[x]]
            /\ UNCHANGED <<active_connections, hist>>
       ELSE Fetch(b, [bc[b] EXCEPT !.room = r, !.msg = e],
                     [hist[b] EXCEPT !.start = Elems(room_connections[r]),
                                     !.stable = Elems(room_connections[r]),
                                     !.after = Suspended])

\* A producer calls broadcast_to_room(e, r): returns at once for an unknown room,
\* else starts the loop and suspends in its first send.
StartBroadcast(b, r, e) ==
    /\ bc[b].pc = "idle"
    /\ ~Returning
    /\ UNCHANGED <<pc, net>>
    /\ IF r \notin DOMAIN room_connections
       THEN /\ bc' = [bc EXCEPT ![b] = [@ EXCEPT !.pc = "done", !.room = r, !.msg = e]]
            /\ UNCHANGED <<active_connections, room_connections, hist>>
       ELSE Fetch(b, [bc[b] EXCEPT !.room = r, !.msg = e],
                     [hist[b] EXCEPT !.start = Elems(room_connections[r]),
                                     !.stable = Elems(room_connections[r]),
                                     !.after = Suspended])

\* A caller calls broadcast(e): the loop over the registry starts and suspends in
\* its first send, or ends at once when no connection is registered.
StartBroadcastAll(b, e) ==
    /\ bc[b].pc = "idle"
    /\ ~Returning
    /\ UNCHANGED <<pc, net>>
    /\ Fetch(b, [bc[b] EXCEPT !.room = All, !.msg = e],
                [hist[b] EXCEPT !.start = Elems(active_connections),
                                !.stable = Elems(active_connections),
                                !.after = Suspended])

\* Variant of SendOk that collects the connection although its send succeeded.
SendOkCollects(b) ==
    /\ bc[b].pc = "send"
    /\ ~Returning
    /\ CanSend(bc[b].cur)
    /\ UNCHANGED <<pc, net>>
    /\ Fetch(b, OnSendError(bc[b]), hist[b])

\* The send the call is suspended in completes and the loop goes on.
SendOk(b) ==
    /\ bc[b].pc = "send"
    /\ ~Returning
    /\ CanSend(bc[b].cur)
    /\ UNCHANGED <<pc, net>>
    /\ Fetch(b, bc[b], hist[b])

\* The send the call is suspended in raises: the connection is collected and the
\* loop goes on.
SendFail(b) ==
    /\ bc[b].pc = "send"
    /\ ~Returning
    /\ CanSend(bc[b].cur)
    /\ UNCHANGED <<pc, net>>
    /\ Fetch(b, OnSendError(bc[b]),
                [hist[b] EXCEPT !.failed = @ \cup {bc[b].cur}])

\* The call returns to the producer that awaited it; its frame is gone.
Return(b) ==
    /\ bc[b].pc = "done"
    /\ bc' = [bc EXCEPT ![b] = IdleCall]
    /\ hist' = [hist EXCEPT ![b] = NoHistory]
    /\ UNCHANGED <<active_connections, room_connections, pc, net>>

----------------------------------------------------------------------------

\* The steps of the server while every peer reads what it is sent and a peer that
\* closes is noticed at once by its receive loop; the content of the
\* acknowledgements is left out.
Next ==
    \/ \E c \in Conns : Connect(c) /\ UNCHANGED rest
    \/ \E c \in Conns, r \in Rooms : RecvJoinRoom(c, r) /\ UNCHANGED rest
    \/ \E c \in Conns, r \in Rooms : RecvLeaveRoom(c, r) /\ UNCHANGED rest
    \/ \E c \in Conns, u \in UserIds : RecvJoinUserRoom(c, u) /\ UNCHANGED rest
    \/ \E c \in Conns : RecvIgnored(c) /\ UNCHANGED rest
    \/ \E c \in Conns : AckDone(c) /\ UNCHANGED rest
    \/ \E c \in Conns : AckFail(c) /\ UNCHANGED rest
    \/ \E c \in Conns : RecvDisconnect(c) /\ UNCHANGED rest
    \/ \E c \in Conns : RecvBadPayload(c) /\ UNCHANGED rest
    \/ \E b \in Tasks, k \in Calls : StartBroadcast(b, k[1], k[2]) /\ UNCHANGED rest
    \/ \E b \in Tasks : SendOk(b) /\ UNCHANGED rest
    \/ \E b \in Tasks : SendFail(b) /\ UNCHANGED rest
    \/ \E b \in Tasks : Return(b) /\ UNCHANGED rest

Spec == Init /\ [][Next]_vars

\* The server with callers of both broadcast_to_room and broadcast(), and clients
\* that use the course room only.
NextAll ==
    \/ \E c \in Conns : Connect(c) /\ UNCHANGED rest
    \/ \E c \in Conns : RecvJoinRoom(c, "course_7") /\ UNCHANGED rest
    \/ \E c \in Conns : RecvLeaveRoom(c, "course_7") /\ UNCHANGED rest
    \/ \E c \in Conns : AckDone(c) /\ UNCHANGED rest
    \/ \E c \in Conns : AckFail(c) /\ UNCHANGED rest
    \/ \E c \in Conns : RecvDisconnect(c) /\ UNCHANGED rest
    \/ \E c \in Conns : RecvBadPayload(c) /\ UNCHANGED rest
    \/ \E b \in Tasks : StartBroadcast(b, "course_7", "rating_updated") /\ UNCHANGED rest
    \/ \E b \in Tasks : StartBroadcastAll(b, "notice") /\ UNCHANGED rest
    \/ \E b \in Tasks : SendOk(b) /\ UNCHANGED rest
    \/ \E b \in Tasks : SendFail(b) /\ UNCHANGED rest
    \/ \E b \in Tasks : Return(b) /\ UNCHANGED rest

SpecAll == Init /\ [][NextAll]_vars

----------------------------------------------------------------------------
(* The producers: HTTP handlers that commit a change and announce it *)

\* The handlers that call manager.broadcast_to_room.
Producers == {"rate_course", "grade_assignment", "create_course_review",
              "update_review", "delete_review"}

\* The course and the student of the requests.
CourseId == 7
StudentId == 42

\* f"course_{course_id}"
CourseRoom(k) == "course_" \o ToString(k)

\* "event" of the message a handler broadcasts.
EventOf(kind) ==
    CASE kind = "rate_course"          -> "rating_updated"
      [] kind = "grade_assignment"     -> "assignment_graded"
      [] kind = "create_course_review" -> "review_created"
      [] kind = "update_review"        -> "review_updated"
      [] kind = "delete_review"        -> "review_deleted"

\* Variant of RoomOf that sends every event to the course room.
RoomOfCourse(kind) == CourseRoom(CourseId)

\* room_id a handler broadcasts to.
RoomOf(kind) ==
    IF kind = "grade_assignment" THEN UserRoom(StudentId) ELSE CourseRoom(CourseId)

\* What a handler returns after its try block.
ResponseOf(kind) ==
    CASE kind = "rate_course"          -> "response_data"
      [] kind = "grade_assignment"     -> "progress"
      [] kind = "create_course_review" -> "new_review"
      [] kind = "update_review"        -> "updated_review"
      [] kind = "delete_review"        -> "None"

\* The HTTPException a handler can raise before its commit.
Rejections(kind) ==
    CASE kind = "rate_course"          -> {"404 course", "400 already rated"}
      [] kind = "grade_assignment"     -> {"404 assignment", "403 not teacher",
                                           "404 not enrolled", "404 no submission"}
      [] kind = "create_course_review" -> {"404 course", "400 already reviewed"}
      [] kind = "update_review"        -> {"404 review", "403 not owner"}
      [] kind = "delete_review"        -> {"404 review", "403 not owner"}

\* A request of the given kind fails a check: the handler raises before it has
\* committed anything or reached its try block.
Reject(p, kind, why) ==
    /\ req[p].pc = "idle"
    /\ ~Returning
    /\ why \in Rejections(kind)
    /\ req' = [req EXCEPT ![p] = [@ EXCEPT !.kind = kind, !.pc = "responded",
                                           !.response = why]]
    /\ UNCHANGED <<active_connections, room_connections, pc, bc, hist, net, ack>>

\* Variant of Commit that reaches the try block with the commit still to come.
CommitLate(p, kind) ==
    /\ req[p].pc = "idle"
    /\ ~Returning
    /\ req' = [req EXCEPT ![p] = [@ EXCEPT !.kind = kind, !.pc = "committed"]]
    /\ UNCHANGED <<active_connections, room_connections, pc, bc, hist, net, ack>>

\* A request of the given kind passes its checks and commits its change.
Commit(p, kind) ==
    /\ req[p].pc = "idle"
    /\ ~Returning
    /\ req' = [req EXCEPT ![p] = [@ EXCEPT !.kind = kind, !.pc = "committed",
                                           !.committed = TRUE]]
    /\ UNCHANGED <<active_connections, room_connections, pc, bc, hist, net, ack>>

\* The try block calls broadcast_to_room and awaits it.
Dispatch(p) ==
    /\ req[p].pc = "committed"
    /\ StartBroadcast(p, RoomOf(req[p].kind), EventOf(req[p].kind))
    /\ req' = [req EXCEPT ![p].pc = "dispatching"]
    /\ UNCHANGED ack

\* Variant of OnDispatchError without the except clause: the exception leaves the
\* handler and the framework answers 500.
OnDispatchErrorPropagate(rq) ==
    [rq EXCEPT !.pc = "responded", !.raised = TRUE, !.response = "500"]

\* "except Exception as e: print(...)", then the handler's return.
OnDispatchError(rq) ==
    [rq EXCEPT !.pc = "responded", !.raised = TRUE, !.response = ResponseOf(rq.kind)]

\* The try block raises (building the message, or the call itself).
DispatchRaises(p) ==
    /\ req[p].pc = "committed"
    /\ ~Returning
    /\ req' = [req EXCEPT ![p] = OnDispatchError(@)]
    /\ UNCHANGED <<active_connections, room_connections, pc, bc, hist, net, ack>>

\* broadcast_to_room returns to the handler, which returns its response.
Respond(p) ==
    /\ req[p].pc = "dispatching"
    /\ Return(p)
    /\ req' = [req EXCEPT ![p] = [@ EXCEPT !.pc = "responded",
                                           !.response = ResponseOf(req[p].kind)]]
    /\ UNCHANGED ack

\* The server with one producer request of any kind.
NextProd ==
    \/ \E c \in Conns : Connect(c) /\ UNCHANGED rest
    \/ \E c \in Conns, r \in Rooms : RecvJoinRoom(c, r) /\ UNCHANGED rest
    \/ \E c \in Conns, r \in Rooms : RecvLeaveRoom(c, r) /\ UNCHANGED rest
    \/ \E c \in Conns : AckDone(c) /\ UNCHANGED rest
    \/ \E c \in Conns : RecvDisconnect(c) /\ UNCHANGED rest
    \/ \E p \in Tasks, kind \in Producers :
          \E why \in Rejections(kind) : Reject(p, kind, why)
    \/ \E p \in Tasks, kind \in Producers : Commit(p, kind)
    \/ \E p \in Tasks : Dispatch(p)
    \/ \E p \in Tasks : DispatchRaises(p)
    \/ \E b \in Tasks : SendOk(b) /\ UNCHANGED rest
    \/ \E b \in Tasks : SendFail(b) /\ UNCHANGED rest
    \/ \E p \in Tasks : Respond(p)

SpecProd == Init /\ [][NextProd]_vars

----------------------------------------------------------------------------
(* Handshakes that fail *)

\* Variant of ConnectFail that registers the connection before it awaits accept.
ConnectAppendFirst(c) ==
    /\ pc[c] = "new"
    /\ ~Returning
    /\ ManagerBecomes(Append(active_connections, c), room_connections)
    /\ pc' = [pc EXCEPT ![c] = "refused"]
    /\ net' = [net EXCEPT ![c] = [link |-> "down", queued |-> 0]]

\* manager.connect: "await websocket.accept()" raises. The append is not reached,
\* and the exception leaves websocket_endpoint, whose try block starts after the
\* call of connect: the task ends without a disconnect.
ConnectFail(c) ==
    /\ pc[c] = "new"
    /\ ~Returning
    /\ pc' = [pc EXCEPT ![c] = "refused"]
    /\ net' = [net EXCEPT ![c] = [link |-> "down", queued |-> 0]]
    /\ UNCHANGED <<active_connections, room_connections, bc, hist>>

\* The server of Next with handshakes that can fail.
NextConn ==
    \/ Next
    \/ \E c \in Conns : ConnectFail(c) /\ UNCHANGED rest

SpecConn == Init /\ [][NextConn]_vars

----------------------------------------------------------------------------
(* Transports that stall or close *)

\* The loop of connection c is running.
Running(c) == pc[c] \in {"open", "acking"}

\* The peer of connection c stops reading: sends to it no longer complete.
Stall(c) ==
    /\ Running(c)
    /\ ~Returning
    /\ net[c].link = "up"
    /\ net' = [net EXCEPT ![c].link = "stalled"]
    /\ UNCHANGED <<active_connections, room_connections, pc, bc, hist, ack, req>>

\* The peer of connection c closes its transport, leaving n commands unread.
PeerClose(c, n) ==
    /\ Running(c)
    /\ ~Returning
    /\ net[c].link # "down"
    /\ net' = [net EXCEPT ![c] = [link |-> "down", queued |-> n]]
    /\ UNCHANGED <<active_connections, room_connections, pc, bc, hist, ack, req>>

\* A step of the receive loop of connection c, for a client that joins rooms and
\* does not leave them.
LoopStep(c) ==
    \/ \E r \in Rooms : RecvJoinRoom(c, r) /\ UNCHANGED rest
    \/ RecvIgnored(c) /\ UNCHANGED rest
    \/ AckDone(c) /\ UNCHANGED rest
    \/ AckFail(c) /\ UNCHANGED rest
    \/ RecvDisconnect(c) /\ UNCHANGED rest
    \/ RecvBadPayload(c) /\ UNCHANGED rest

\* A step of the request p that awaits its broadcast_to_room call: a send
\* completes, or the call returns and the handler answers.
CallStep(p) ==
    \/ SendOk(p) /\ UNCHANGED rest
    \/ SendFail(p) /\ UNCHANGED rest
    \/ Respond(p)

\* The server with peers that close their transport, and one rate_course request.
NextClose ==
    \/ \E c \in Conns : Connect(c) /\ UNCHANGED rest
    \/ \E c \in Conns : LoopStep(c)
    \/ \E c \in Conns, n \in 0..MaxQueued : PeerClose(c, n)
    \/ \E p \in Tasks : Commit(p, "rate_course")
    \/ \E p \in Tasks : Dispatch(p)
    \/ \E p \in Tasks : CallStep(p)

SpecClose == Init /\ [][NextClose]_vars

\* The event loop runs every task that is ready: a receive loop that can take a
\* step again and again takes one, and a call whose send has completed goes on.
FairClose ==
    /\ SpecClose
    /\ \A c \in Conns : SF_vars(LoopStep(c))
    /\ \A p \in Tasks : WF_vars(CallStep(p))

\* The server with peers that stop reading, and one rate_course request.
NextStall ==
    \/ \E c \in Conns : Connect(c) /\ UNCHANGED rest
    \/ \E c \in Conns : LoopStep(c)
    \/ \E c \in Conns : Stall(c)
    \/ \E p \in Tasks : Commit(p, "rate_course")
    \/ \E p \in Tasks : Dispatch(p)
    \/ \E p \in Tasks : CallStep(p)

SpecStall == Init /\ [][NextStall]_vars

\* The same scheduling, with peers that stop reading.
FairStall ==
    /\ SpecStall
    /\ \A c \in Conns : SF_vars(LoopStep(c))
    /\ \A p \in Tasks : WF_vars(CallStep(p))

----------------------------------------------------------------------------
(* Sends that complete *)

\* The send call b is suspended in completes, by returning or by raising.
SendCompletes(b) == (SendOk(b) \/ SendFail(b)) /\ UNCHANGED rest

\* Call b returns to its caller.
Returns(b) == Return(b) /\ UNCHANGED rest

\* The server with clients that join and leave the course room and close, and
\* callers of broadcast_to_room on that room.
NextLoop ==
    \/ \E c \in Conns : Connect(c) /\ UNCHANGED rest
    \/ \E c \in Conns : RecvJoinRoom(c, "course_7") /\ UNCHANGED rest
    \/ \E c \in Conns : RecvLeaveRoom(c, "course_7") /\ UNCHANGED rest
    \/ \E c \in Conns : AckDone(c) /\ UNCHANGED rest
    \/ \E c \in Conns : RecvDisconnect(c) /\ UNCHANGED rest
    \/ \E b \in Tasks : StartBroadcast(b, "course_7", "rating_updated") /\ UNCHANGED rest
    \/ \E b \in Tasks : SendCompletes(b)
    \/ \E b \in Tasks : Returns(b)

SpecLoop == Init /\ [][NextLoop]_vars

\* Every send completes: a call that is suspended in a send goes on, however often
\* other calls reach their return meanwhile; and a call whose cleanup is done
\* returns, no await lying in between.
FairLoop ==
    /\ SpecLoop
    /\ \A b \in Tasks : SF_vars(SendCompletes(b))
    /\ \A b \in Tasks : WF_vars(Returns(b))

----------------------------------------------------------------------------
(* Two producer requests in flight *)

\* The two requests: a rating of the course, then a review of it.
Pair == {1, 2}
KindOf(p) == IF p = 1 THEN "rate_course" ELSE "create_course_review"

InitTwo ==
    /\ active_connections = <<>>
    /\ room_connections = <<>>
    /\ pc = [c \in Conns |-> "new"]
    /\ bc = [b \in Pair |-> IdleCall]
    /\ hist = [b \in Pair |-> NoHistory]
    /\ net = [c \in Conns |-> LinkUp]
    /\ ack = [c \in Conns |-> NoMsg]
    /\ req = [p \in Pair |-> IdleReq]

\* The server with two producer requests on the same course and clients that
\* join the course room and stay; the second request arrives after the first.
NextTwo ==
    \/ \E c \in Conns : Connect(c) /\ UNCHANGED rest
    \/ \E c \in Conns : RecvJoinRoom(c, CourseRoom(CourseId)) /\ UNCHANGED rest
    \/ \E c \in Conns : AckDone(c) /\ UNCHANGED rest
    \/ \E c \in Conns : RecvDisconnect(c) /\ UNCHANGED rest
    \/ \E p \in Pair :
          /\ \A x \in Pair : x < p => req[x].pc # "idle"
          /\ Commit(p, KindOf(p))
    \/ \E p \in Pair : Dispatch(p)
    \/ \E b \in Pair : SendOk(b) /\ UNCHANGED rest
    \/ \E b \in Pair : SendFail(b) /\ UNCHANGED rest
    \/ \E p \in Pair : Respond(p)

SpecTwo == InitTwo /\ [][NextTwo]_vars

----------------------------------------------------------------------------
(* The acknowledgements of the receive loop *)

\* {"event": "joined_room", "room_id": room_id}
JoinedRoomMsg(r) == [event |-> "joined_room", room_id |-> r]

\* Variant of LeftRoomMsg that reports a join.
LeftRoomMsgJoined(r) == [event |-> "joined_room", room_id |-> r]

\* {"event": "left_room", "room_id": room_id}
LeftRoomMsg(r) == [event |-> "left_room", room_id |-> r]

\* {"event": "joined_user_room", "user_id": user_id}
JoinedUserRoomMsg(u) == [event |-> "joined_user_room", user_id |-> u]

\* manager.send_personal_message(m, websocket) is called for connection c and
\* suspends in its send.
SendPersonal(c, m) == ack' = [ack EXCEPT ![c] = m]

\* send_personal_message of connection c returns.
SendPersonalReturns(c) == ack' = [ack EXCEPT ![c] = NoMsg]

\* The join_room branch with its acknowledgement.
JoinRoomCommand(c, r) ==
    RecvJoinRoom(c, r) /\ SendPersonal(c, JoinedRoomMsg(r))

\* The leave_room branch with its acknowledgement.
LeaveRoomCommand(c, r) ==
    RecvLeaveRoom(c, r) /\ SendPersonal(c, LeftRoomMsg(r))

\* The join_user_room branch with its acknowledgement.
JoinUserRoomCommand(c, u) ==
    /\ RecvJoinUserRoom(c, u)
    /\ IF Truthy(u) THEN SendPersonal(c, JoinedUserRoomMsg(u)) ELSE UNCHANGED ack

\* The acknowledgement's send completes, by returning or by raising.
AckReturns(c) ==
    (AckDone(c) \/ AckFail(c)) /\ SendPersonalReturns(c)

\* The server with the content of the acknowledgements, and a producer that
\* broadcasts to the course room.
NextAck ==
    \/ \E c \in Conns : Connect(c) /\ UNCHANGED rest
    \/ \E c \in Conns, r \in Rooms : JoinRoomCommand(c, r) /\ UNCHANGED req
    \/ \E c \in Conns, r \in Rooms : LeaveRoomCommand(c, r) /\ UNCHANGED req
    \/ \E c \in Conns, u \in UserIds : JoinUserRoomCommand(c, u) /\ UNCHANGED req
    \/ \E c \in Conns : RecvIgnored(c) /\ UNCHANGED rest
    \/ \E c \in Conns : AckReturns(c) /\ UNCHANGED req
    \/ \E c \in Conns : RecvDisconnect(c) /\ UNCHANGED rest
    \/ \E c \in Conns : RecvBadPayload(c) /\ UNCHANGED rest
    \/ \E b \in Tasks : StartBroadcast(b, "course_7", "rating_updated") /\ UNCHANGED rest
    \/ \E b \in Tasks : SendOk(b) /\ UNCHANGED rest
    \/ \E b \in Tasks : SendFail(b) /\ UNCHANGED rest
    \/ \E b \in Tasks : Return(b) /\ UNCHANGED rest

SpecAck == Init /\ [][NextAck]_vars

----------------------------------------------------------------------------
(* Sanity of the model *)

TypeOK ==
    /\ Elems(active_connections) \subseteq Conns
    /\ DOMAIN room_connections \subseteq Rooms
    /\ \A r \in DOMAIN room_connections : Elems(room_connections[r]) \subseteq Conns
    /\ \A c \in Conns : pc[c] \in {"new", "refused", "open", "acking", "closed"}
    /\ \A b \in DOMAIN bc : bc[b].pc \in {"idle", "send", "done"}
    /\ \A b \in DOMAIN bc : bc[b].pc = "send" /\ bc[b].room # All /\ ~bc[b].detached
                            => bc[b].room \in DOMAIN room_connections

----------------------------------------------------------------------------
(* Properties of broadcast_to_room under concurrency *)

\* The connections call b has attempted a send to.
SentTo(b) == {hist[b].sent[i].to : i \in 1..Len(hist[b].sent)}

\* s without every occurrence of x.
Without(s, x) == SelectSeq(s, LAMBDA y : y # x)

\* The other room.
OtherRooms(r) == Rooms \ {r}

\* C1: when a broadcast_to_room call returns, it has attempted a send to every
\* connection that was a member of its room during the whole call, whatever the
\* other connections did meanwhile.
C1_StableMembersAttempted ==
    \A b \in Tasks : bc[b].pc = "done" => hist[b].stable \subseteq SentTo(b)

\* C2: when a broadcast_to_room call returns, the connections it sent to are
\* exactly the members its room had when the call started.
C2_RecipientsAreStartMembers ==
    \A b \in Tasks : bc[b].pc = "done" => SentTo(b) = hist[b].start

\* C3: within one broadcast_to_room call no connection is sent the event twice,
\* and every payload sent is the event the call was given.
C3_AtMostOnceUnmodified ==
    \A b \in Tasks :
        \A i, j \in 1..Len(hist[b].sent) :
            /\ hist[b].sent[i].payload = bc[b].msg
            /\ hist[b].sent[i].to = hist[b].sent[j].to => i = j

\* C4: every connection listed in a room is in active_connections.
C4_MembersAreRegistered ==
    \A r \in DOMAIN room_connections :
        Elems(room_connections[r]) \subseteq Elems(active_connections)

\* C5: every room id present in room_connections maps to a non-empty list.
C5_NoEmptyRoom ==
    \A r \in DOMAIN room_connections : room_connections[r] # <<>>

\* C5 witness: a call that nobody interfered with has sent to its room's members,
\* and its own cleanup has emptied the room, which is gone from the index.
C5_Witness ==
    \E b \in Tasks :
        /\ bc[b].pc = "done"
        /\ hist[b].quiet
        /\ hist[b].sent # <<>>
        /\ bc[b].room \notin DOMAIN room_connections

\* C6: in every reachable state a second join_room(C, R) changes nothing that the
\* first did not, and no room lists a connection twice.
C6_JoinIdempotent ==
    /\ \A c \in Conns, r \in Rooms :
          LET once == JoinRoom(room_connections, c, r)
          IN  /\ JoinRoom(once, c, r) = once
              /\ Len(once[r]) = Cardinality(Elems(once[r]))
    /\ \A r \in DOMAIN room_connections :
          Len(room_connections[r]) = Cardinality(Elems(room_connections[r]))

\* C6 witness: a connection whose loop is ready for a command is already listed,
\* after another connection, in a room: a join_room for that room is the second.
C6_Witness ==
    \E c \in Conns, r \in DOMAIN room_connections :
        /\ pc[c] = "open"
        /\ ~Returning
        /\ Len(room_connections[r]) = 2
        /\ room_connections[r][1] = c
        /\ JoinRoom(room_connections, c, r) = room_connections

\* C7: in every reachable state disconnect(C) leaves C out of active_connections
\* and out of every room, deletes exactly the rooms C was alone in, and leaves in
\* every other room exactly its other members.
C7_DisconnectCascades ==
    \A c \in Conns :
        LET d == Disconnect(active_connections, room_connections, c)
        IN  /\ ~Contains(d.active, c)
            /\ DOMAIN d.rooms = DOMAIN room_connections \ SoleRoomsOf(room_connections, c)
            /\ \A r \in DOMAIN d.rooms :
                  /\ ~Contains(d.rooms[r], c)
                  /\ d.rooms[r] = Without(room_connections[r], c)
                  /\ Contains(room_connections[r], c)
                        => Len(d.rooms[r]) = Len(room_connections[r]) - 1

\* C7 witness: a registered connection about to be disconnected is in both rooms,
\* alone in one of them and with another connection in the other.
C7_Witness ==
    \E c \in Conns, r \in Rooms :
        /\ pc[c] = "open"
        /\ ~Returning
        /\ Contains(active_connections, c)
        /\ RoomsOf(room_connections, c) = Rooms
        /\ SoleRoomsOf(room_connections, c) = {r}
        /\ DOMAIN Disconnect(active_connections, room_connections, c).rooms
              = OtherRooms(r)

\* C8: a leave_room(C, R) step with C a member of R changes nothing but R's list,
\* from which C is removed; R is deleted from the index when C was its last member.
C8_LeaveRoomEffect ==
    [][\A c \in Conns, r \in Rooms :
          (RecvLeaveRoom(c, r) /\ c \in MembersOf(room_connections, r))
          => /\ active_connections' = active_connections
             /\ DOMAIN room_connections' =
                  IF room_connections[r] = <<c>>
                  THEN DOMAIN room_connections \ {r}
                  ELSE DOMAIN room_connections
             /\ \A x \in DOMAIN room_connections' :
                  room_connections'[x] =
                     IF x = r THEN Without(room_connections[r], c)
                     ELSE room_connections[x]
      ]_vars

\* C8 witness: a connection whose loop is ready for a command is the last member
\* of a room, the other room has members, and leave_room deletes the first room.
C8_Witness ==
    \E c \in Conns, r \in Rooms :
        /\ pc[c] = "open"
        /\ ~Returning
        /\ r \in DOMAIN room_connections
        /\ room_connections[r] = <<c>>
        /\ OtherRooms(r) \subseteq DOMAIN room_connections
        /\ DOMAIN LeaveRoom(room_connections, c, r) = OtherRooms(r)

\* C9: every send a broadcast_to_room call makes goes to a connection that is, at
\* that moment, a member of the call's room.
C9_SendsOnlyToMembers ==
    [][\A b \in Tasks :
          Len(hist'[b].sent) > Len(hist[b].sent)
          => hist'[b].sent[Len(hist'[b].sent)].to
                \in MembersOf(room_connections', bc'[b].room)
      ]_vars

\* C9 witness: a call has sent to the members of its room and returns, while a
\* connection that is a member of the other room only was sent nothing.
C9_Witness ==
    \E b \in Tasks, d \in Conns :
        /\ bc[b].pc = "done"
        /\ hist[b].quiet
        /\ hist[b].sent # <<>>
        /\ RoomsOf(room_connections, d) = OtherRooms(bc[b].room)
        /\ d \notin SentTo(b)

\* C10: when a broadcast_to_room call that no other task interfered with returns,
\* it has attempted a send to every member of the room, failed sends or not, and
\* every connection whose send failed is out of active_connections and of every
\* room.
C10_PartialFailure ==
    \A b \in Tasks :
        (bc[b].pc = "done" /\ hist[b].quiet)
        => /\ SentTo(b) = hist[b].start
           /\ \A c \in hist[b].failed :
                 /\ ~Contains(active_connections, c)
                 /\ RoomsOf(room_connections, c) = {}

\* C10 witness: the first send of an undisturbed call failed, the second was made
\* all the same and succeeded, and the call returns.
C10_Witness ==
    \E b \in Tasks :
        /\ bc[b].pc = "done"
        /\ hist[b].quiet
        /\ Len(hist[b].sent) = 2
        /\ hist[b].sent[1].to \in hist[b].failed
        /\ hist[b].sent[2].to \notin hist[b].failed
        /\ Contains(active_connections, hist[b].sent[2].to)

\* The connection of the latest send attempt of a history.
LastTo(h) == h.sent[Len(h.sent)].to

\* C11: when a broadcast_to_room call on room R starts before another call on R,
\* every connection that is sent both events is sent the first call's event
\* first, also when the calls overlap: no call sends to a connection that a call
\* which started later, during its suspension, has already sent to.
C11_PerRoomOrder ==
    [][\A b, x \in DOMAIN bc :
          /\ Len(hist'[b].sent) > Len(hist[b].sent)
          /\ b \in hist[x].after
          /\ bc[x].room = bc'[b].room
          => LastTo(hist'[b]) \notin SentTo(x)]_vars

\* C12: a stalled client does not stall the broadcaster: a producer request that
\* awaits its broadcast_to_room call eventually gets its answer, also when the
\* send to one member of the room never completes.
C12_StalledClientNoStall ==
    \A p \in Tasks : (req[p].pc = "dispatching") ~> (req[p].pc = "responded")

\* C13: when the send made by send_personal_message to connection c fails, c goes
\* through the cleanup of a disconnect: it is removed from the registry and from
\* every room.
C13_AckFailureCleansUp ==
    [][\A c \in Conns :
          AckFail(c) => /\ ~Contains(active_connections', c)
                        /\ RoomsOf(room_connections', c) = {}]_vars

\* C14: an inbound message that is not a well-formed command (unknown command,
\* missing or empty id, payload that is not a JSON object or cannot be decoded)
\* is ignored: registry and index are unchanged and the connection stays open.
C14_MalformedIgnored ==
    [][\A c \in Conns :
          RecvIgnored(c) \/ RecvBadPayload(c)
              => /\ pc'[c] = "open"
                 /\ active_connections' = active_connections
                 /\ room_connections' = room_connections]_vars

\* C15: once the peer has closed the transport of a connection whose loop is
\* running, the connection is eventually closed and absent from the registry and
\* from every room.
C15_PeerCloseCleansUp ==
    \A c \in Conns :
        (net[c].link = "down" /\ Running(c))
            ~> /\ pc[c] = "closed"
               /\ ~Contains(active_connections, c)
               /\ RoomsOf(room_connections, c) = {}

\* A connection is closed after its peer closed the transport while it was a
\* member of two rooms, and another connection is still registered.
C15_Witness ==
    \E c \in Conns :
        /\ net[c].link = "down"
        /\ Running(c)
        /\ Cardinality(RoomsOf(room_connections, c)) = 2
        /\ \E d \in Conns \ {c} : Contains(active_connections, d)

\* C16: once the receive loop of connection c has ended and run its cleanup, c is
\* never again in the registry or in a room, its task takes no further step, and
\* no broadcast or broadcast_to_room call makes a send attempt to c.
C16_ClosedIsFinal ==
    /\ [](\A c \in Conns :
            pc[c] = "closed" => /\ ~Contains(active_connections, c)
                                /\ RoomsOf(room_connections, c) = {})
    /\ [][\A c \in Conns :
            pc[c] = "closed"
                => /\ pc'[c] = "closed"
                   /\ \A b \in DOMAIN bc :
                          Len(hist'[b].sent) > Len(hist[b].sent)
                              => LastTo(hist'[b]) # c]_vars

\* A call of broadcast() that started after connection c was closed has sent to
\* another connection and is returning.
C16_Witness ==
    \E c \in Conns, b \in DOMAIN bc :
        /\ pc[c] = "closed"
        /\ bc[b].pc = "done"
        /\ bc[b].room = All
        /\ c \notin hist[b].start
        /\ hist[b].sent # <<>>

\* The acknowledgement m is in flight to connection c alone, after a step of c's
\* receive loop that leaves c registered and its loop running.
AckedWith(c, m) ==
    /\ ack'[c] = m
    /\ \A d \in Conns \ {c} : ack'[d] = ack[d]
    /\ pc'[c] = "acking"
    /\ active_connections' = active_connections

\* C17: for a recognized command with a non-empty id from an open connection c,
\* the index mutation is applied, then exactly one acknowledgement with the same
\* id is sent, to c and to no other connection, and c's loop goes on.
C17_MutationThenOneAck ==
    [][\A c \in Conns :
          /\ \A r \in Rooms :
                JoinRoomCommand(c, r)
                    => /\ pc[c] = "open"
                       /\ c \in MembersOf(room_connections', r)
                       /\ AckedWith(c, [event |-> "joined_room", room_id |-> r])
          /\ \A r \in Rooms :
                LeaveRoomCommand(c, r)
                    => /\ pc[c] = "open"
                       /\ c \notin MembersOf(room_connections', r)
                       /\ AckedWith(c, [event |-> "left_room", room_id |-> r])
          /\ \A u \in UserIds \ {0} :
                JoinUserRoomCommand(c, u)
                    => /\ pc[c] = "open"
                       /\ c \in MembersOf(room_connections', UserRoom(u))
                       /\ AckedWith(c, [event |-> "joined_user_room", user_id |-> u])
          /\ ack[c] # NoMsg /\ ack'[c] # ack[c]
                => /\ ack'[c] = NoMsg
                   /\ pc[c] = "acking" /\ pc'[c] = "open"
                   /\ active_connections' = active_connections
                   /\ room_connections' = room_connections
          /\ ack[c] = NoMsg /\ ack'[c] # NoMsg => pc[c] = "open"]_vars

\* One connection awaits its joined_user_room acknowledgement as a member of the
\* user's room while another awaits a left_room acknowledgement.
C17_Witness ==
    \E c, d \in Conns :
        /\ pc[c] = "acking"
        /\ ack[c] = [event |-> "joined_user_room", user_id |-> 42]
        /\ c \in MembersOf(room_connections, "user_42")
        /\ pc[d] = "acking"
        /\ ack[d] = [event |-> "left_room", room_id |-> "course_7"]

\* C18: for every integer user id u, join_user_room(u) from an open connection
\* changes the index exactly as join_room("user_<u>") would.
C18_JoinUserRoomIsJoinRoom ==
    \A c \in Conns, u \in UserIds :
        pc[c] = "open"
            => JoinUserRoom(room_connections, c, u)
                   = JoinRoom(room_connections, c, UserRoom(u))

\* C19: broadcast_to_room(e, R) for a room R that is not in the index makes no
\* send, leaves the registry and the index unchanged, and returns.
C19_UnknownRoomNoOp ==
    [][\A b \in DOMAIN bc, k \in Calls :
          StartBroadcast(b, k[1], k[2]) /\ k[1] \notin DOMAIN room_connections
              => /\ bc'[b].pc = "done"
                 /\ hist'[b].sent = <<>>
                 /\ bc'[b].disconnected = <<>>
                 /\ active_connections' = active_connections
                 /\ room_connections' = room_connections]_vars

\* A call on an unknown room is returning while connections are registered and
\* another room has members.
C19_Witness ==
    \E b \in DOMAIN bc :
        /\ bc[b].pc = "done"
        /\ hist[b].sent = <<>>
        /\ bc[b].room \notin DOMAIN room_connections
        /\ active_connections # <<>>
        /\ DOMAIN room_connections # {}

\* C20: a failure of a producer's dispatch does not change the outcome of the
\* request: whether the try block around broadcast_to_room returns or raises, the
\* handler answers with its success response and the committed change remains.
C20_DispatchFailureHarmless ==
    /\ [](\A p \in DOMAIN req :
            req[p].pc = "responded" /\ req[p].committed
                => req[p].response = ResponseOf(req[p].kind))
    /\ [][\A p \in DOMAIN req :
            req[p].committed
                => req'[p].committed /\ req'[p].kind = req[p].kind]_vars

\* A grade_assignment request whose dispatch raised has answered, while the
\* student's room has a member.
C20_Witness ==
    \E p \in DOMAIN req :
        /\ req[p].pc = "responded"
        /\ req[p].kind = "grade_assignment"
        /\ req[p].committed
        /\ req[p].raised
        /\ MembersOf(room_connections, RoomOf("grade_assignment")) # {}

\* C21: a producer calls broadcast_to_room only after the commit of the change it
\* announces; a request that fails before its commit emits no event.
C21_BroadcastAfterCommit ==
    /\ [](\A p \in DOMAIN req :
            ~req[p].committed => bc[p].pc = "idle" /\ hist[p].sent = <<>>)
    /\ [][\A p \in DOMAIN req :
            /\ bc[p].pc = "idle" /\ bc'[p].pc # "idle"
                   => req[p].pc = "committed" /\ req[p].committed
            /\ req[p].pc = "responded" /\ ~req[p].committed
                   => req'[p] = req[p] /\ bc'[p] = bc[p]]_vars

\* A rate_course request was refused as a duplicate while the course room has a
\* member that an event would have reached.
C21_Witness ==
    \E p \in DOMAIN req :
        /\ req[p].pc = "responded"
        /\ req[p].response = "400 already rated"
        /\ ~req[p].committed
        /\ MembersOf(room_connections, RoomOf("rate_course")) # {}

\* C22: the four course events go only to room "course_<c>" and assignment_graded
\* only to room "user_<s>"; a send attempt of assignment_graded is made only to a
\* connection that is a member of "user_<s>" when the attempt is made.
C22_RoomConvention ==
    /\ [](\A p \in DOMAIN bc :
            bc[p].pc # "idle" =>
                /\ bc[p].msg \in {"rating_updated", "review_created",
                                  "review_updated", "review_deleted"}
                       => bc[p].room = "course_7"
                /\ bc[p].msg = "assignment_graded" => bc[p].room = "user_42")
    /\ [][\A p \in DOMAIN bc :
            Len(hist'[p].sent) > Len(hist[p].sent) =>
                LET a == LastTo(hist'[p])
                IN  /\ hist'[p].sent[Len(hist'[p].sent)].payload = "assignment_graded"
                           => a \in MembersOf(room_connections, "user_42")
                    /\ hist'[p].sent[Len(hist'[p].sent)].payload # "assignment_graded"
                           => a \in MembersOf(room_connections, "course_7")]_vars

\* assignment_graded is being sent to a member of the student's room while another
\* connection, a member of the course room only, has been sent nothing.
C22_Witness ==
    \E p \in DOMAIN bc, c, d \in Conns :
        /\ bc[p].pc = "send"
        /\ bc[p].msg = "assignment_graded"
        /\ bc[p].cur = c
        /\ c \in MembersOf(room_connections, "user_42")
        /\ d # c
        /\ RoomsOf(room_connections, d) = {"course_7"}
        /\ Contains(active_connections, d)
        /\ \A i \in DOMAIN hist[p].sent : hist[p].sent[i].to # d

\* The number of entries of list s that are x.
Count(s, x) == Cardinality({i \in 1..Len(s) : s[i] = x})

\* This step executes disconnect(c): the receive loop of c ends through one of its
\* except clauses, or a broadcast call that collected c runs its cleanup.
DisconnectRuns(c) ==
    \/ pc[c] # "closed" /\ pc'[c] = "closed"
    \/ \E b \in DOMAIN bc : /\ bc[b].pc # "done"
                             /\ bc'[b].pc = "done"
                             /\ Contains(bc'[b].disconnected, c)

\* C23: a connection enters active_connections exactly when its accept succeeds
\* and leaves it exactly when disconnect is executed on it, so it is registered
\* iff it was accepted and not disconnected since; it is listed at most once, and
\* never when its accept failed.
C23_RegistryIffAccepted ==
    /\ [](\A c \in Conns :
            /\ Count(active_connections, c) <= 1
            /\ pc[c] \in {"new", "refused"} => ~Contains(active_connections, c))
    /\ [][\A c \in Conns :
            /\ pc[c] = "new" /\ pc'[c] = "open" => Contains(active_connections', c)
            /\ ~Contains(active_connections, c) /\ Contains(active_connections', c)
                   => pc[c] = "new" /\ pc'[c] = "open"
            /\ Contains(active_connections, c) /\ ~Contains(active_connections', c)
                   => DisconnectRuns(c)
            /\ DisconnectRuns(c) => ~Contains(active_connections', c)]_vars

\* The accept of one connection failed; the other was accepted and then
\* disconnected by the cleanup of a broadcast while its receive loop runs on.
C23_Witness ==
    \E c, d \in Conns :
        /\ pc[c] = "refused"
        /\ pc[d] \in {"open", "acking"}
        /\ ~Contains(active_connections, d)
        /\ \A b \in DOMAIN bc : bc[b].pc = "idle"

\* Connection c is in neither the registry nor any room.
Absent(c) ==
    ~Contains(active_connections, c) /\ RoomsOf(room_connections, c) = {}

\* C24: disconnect(C) on a connection that is in neither the registry nor any room
\* changes nothing, and disconnect(C) twice gives what disconnect(C) once gives;
\* a cleanup of C that finds it absent (the receive loop of C ending after a
\* broadcast has cleaned C up, or the cleanup of a broadcast that overlapped
\* another one which failed on C too) leaves the registry and the index as
\* they are.
C24_DisconnectIdempotent ==
    /\ [](\A c \in Conns :
            LET d == Disconnect(active_connections, room_connections, c)
            IN  /\ Absent(c) => /\ d.active = active_connections
                                /\ d.rooms = room_connections
                /\ Disconnect(d.active, d.rooms, c) = d)
    /\ [][\A c \in Conns :
            Absent(c) /\ pc[c] # "closed" /\ pc'[c] = "closed"
                => /\ active_connections' = active_connections
                   /\ room_connections' = room_connections]_vars
    /\ [][\A b \in DOMAIN bc :
            /\ bc[b].pc # "done"
            /\ bc'[b].pc = "done"
            /\ \A d \in Elems(bc'[b].disconnected) : Absent(d)
            => /\ active_connections' = active_connections
               /\ room_connections' = room_connections]_vars

\* The second of two overlapping calls has run its cleanup on a connection that it
\* failed on and that the first call's cleanup had already removed, the first
\* call having returned and the receive loop of the connection still running.
C24_Witness ==
    \E c \in Conns :
        /\ 2 \in DOMAIN bc
        /\ bc[2].pc = "done"
        /\ Contains(bc[2].disconnected, c)
        /\ c \in hist[2].start
        /\ c \notin hist[2].stable
        /\ pc[c] \in {"open", "acking"}
        /\ req[1].pc = "responded"
        /\ active_connections # <<>>

\* C25: leave_room(C, R) for a room R that is not in the index, or of which C is
\* not a member, returns the index as it is; the leave_room command of the receive
\* loop then leaves the registry and the index unchanged and the loop goes on to
\* its acknowledgement.
C25_LeaveRoomNoOp ==
    /\ [](\A c \in Conns, r \in Rooms :
            c \notin MembersOf(room_connections, r)
                => LeaveRoom(room_connections, c, r) = room_connections)
    /\ [][\A c \in Conns, r \in Rooms :
            LeaveRoomCommand(c, r) /\ c \notin MembersOf(room_connections, r)
                => /\ active_connections' = active_connections
                   /\ room_connections' = room_connections
                   /\ pc'[c] = "acking"]_vars

\* A connection awaits the acknowledgement of a leave_room for a room that is not
\* in the index, while the other room lists both connections, the other one first.
C25_Witness ==
    \E c, d \in Conns :
        /\ c # d
        /\ pc[c] = "acking"
        /\ ack[c] = [event |-> "left_room", room_id |-> "user_42"]
        /\ "user_42" \notin DOMAIN room_connections
        /\ "course_7" \in DOMAIN room_connections
        /\ room_connections["course_7"] = <<d, c>>

\* C26: when a call of broadcast() returns, it has attempted a send to every
\* connection that was in active_connections during the whole call, whatever was
\* removed from the registry while the call was suspended in a send.
C26_BroadcastReachesStable ==
    \A b \in DOMAIN bc :
        bc[b].pc = "done" /\ bc[b].room = All => hist[b].stable \subseteq SentTo(b)

\* List s without the entries that are in set F.
Outside(s, F) == SelectSeq(s, LAMBDA y : y \notin F)

\* Index rc without the connections of F, and without the rooms this empties.
IndexOutside(rc, F) ==
    [r \in {x \in DOMAIN rc : Outside(rc[x], F) # <<>>} |-> Outside(rc[r], F)]

\* C27: a step in which a broadcast or broadcast_to_room call makes a send attempt
\* leaves the registry and the index unchanged; the connections a call has
\* collected are those whose send failed in it; and the step that ends the
\* iteration removes exactly these connections from the registry and from every
\* room, and nothing else.
C27_CollectThenRemove ==
    /\ [](\A b \in DOMAIN bc : Elems(bc[b].disconnected) = hist[b].failed)
    /\ [][\A b \in DOMAIN bc :
            Len(hist'[b].sent) > Len(hist[b].sent)
                => /\ active_connections' = active_connections
                   /\ room_connections' = room_connections
                   /\ bc'[b].pc = "send"]_vars
    /\ [][\A b \in DOMAIN bc :
            bc[b].pc # "done" /\ bc'[b].pc = "done"
                => /\ Len(hist'[b].sent) = Len(hist[b].sent)
                   /\ active_connections' =
                          Outside(active_connections, hist'[b].failed)
                   /\ room_connections' =
                          IndexOutside(room_connections, hist'[b].failed)]_vars

\* A call of broadcast() has returned after two send attempts, the first of which
\* failed: the failed connection is gone from the registry while its receive loop
\* runs on, the other one is still registered and alone in the course room.
C27_Witness ==
    \E b \in DOMAIN bc, c, d \in Conns :
        /\ bc[b].pc = "done"
        /\ bc[b].room = All
        /\ Len(hist[b].sent) = 2
        /\ hist[b].sent[1].to = c
        /\ hist[b].sent[2].to = d
        /\ hist[b].failed = {c}
        /\ active_connections = <<d>>
        /\ pc[c] \in {"open", "acking"}
        /\ MembersOf(room_connections, "course_7") = {d}

\* Connection d is registered after this step iff it was before, is a member of
\* the same rooms, and its receive loop is where it was.
Untouched(d) ==
    /\ Contains(active_connections', d) <=> Contains(active_connections, d)
    /\ RoomsOf(room_connections', d) = RoomsOf(room_connections, d)
    /\ pc'[d] = pc[d]

\* C28: disconnect(C) changes for no other connection D whether D is registered or
\* which rooms D is a member of; a step that runs it, either except clause of the
\* receive loop of C or the cleanup of a broadcast in which sends failed, leaves
\* every connection it is not run on registered as before, in the same rooms, and
\* with its receive loop running as before.
C28_DisconnectIsLocal ==
    /\ [](\A c, d \in Conns :
            d # c =>
                LET x == Disconnect(active_connections, room_connections, c)
                IN  /\ Contains(x.active, d) <=> Contains(active_connections, d)
                    /\ RoomsOf(x.rooms, d) = RoomsOf(room_connections, d))
    /\ [][\A c \in Conns :
            pc[c] # "closed" /\ pc'[c] = "closed"
                => \A d \in Conns \ {c} : Untouched(d)]_vars
    /\ [][\A b \in DOMAIN bc :
            bc[b].pc # "done" /\ bc'[b].pc = "done"
                => \A d \in Conns \ hist'[b].failed : Untouched(d)]_vars

\* A broadcast_to_room call has run its cleanup on a connection whose send failed;
\* the other connection, which the call sent to as well, is still registered and a
\* member of both rooms, and its receive loop is running.
C28_Witness ==
    \E b \in DOMAIN bc, c, d \in Conns :
        /\ bc[b].pc = "done"
        /\ bc[b].room # All
        /\ hist[b].failed = {c}
        /\ d \in SentTo(b) \ {c}
        /\ Contains(active_connections, d)
        /\ RoomsOf(room_connections, d) = Rooms
        /\ pc[d] \in {"open", "acking"}
        /\ Absent(c)

\* Call b takes a step of its own: it makes a send attempt, ends its iteration,
\* or returns.
StepOf(b) ==
    \/ Len(hist'[b].sent) > Len(hist[b].sent)
    \/ bc[b].pc # "done" /\ bc'[b].pc = "done"
    \/ bc[b].pc = "done" /\ bc'[b].pc = "idle"

\* C29: no step of a broadcast or broadcast_to_room call in which no send has
\* failed changes the registry or the index, and a call returns with no connection
\* collected unless a send of it failed.
C29_AllSentNoChange ==
    /\ [](\A b \in DOMAIN bc :
            hist[b].failed = {} => bc[b].disconnected = <<>>)
    /\ [][\A b \in DOMAIN bc :
            StepOf(b) /\ hist'[b].failed = {}
                => /\ active_connections' = active_connections
                   /\ room_connections' = room_connections]_vars

\* A call of broadcast() that no other task interfered with has returned after
\* two successful sends; both connections are registered and in the course room.
C29_Witness ==
    \E b \in DOMAIN bc :
        /\ bc[b].pc = "done"
        /\ bc[b].room = All
        /\ hist[b].quiet
        /\ hist[b].failed = {}
        /\ Len(hist[b].sent) = 2
        /\ Len(active_connections) = 2
        /\ MembersOf(room_connections, "course_7") = Conns

\* The connections whose handshake has succeeded so far.
Accepted == {c \in Conns : pc[c] \in {"open", "acking", "closed"}}

\* C30: when every send completes, a broadcast_to_room call that is suspended in
\* a send eventually returns, whatever joins, leaves and disconnects happen
\* meanwhile; its n-th send attempt is made when at least n receive loops are
\* running, so it never makes more attempts than connections have been accepted.
C30_CallTerminates ==
    /\ [](\A b \in DOMAIN bc : Len(hist[b].sent) <= Cardinality(Accepted))
    /\ [][\A b \in DOMAIN bc :
            Len(hist'[b].sent) > Len(hist[b].sent)
                => Len(hist'[b].sent) <= Cardinality({c \in Conns : Running(c)})]_vars
    /\ \A b \in Tasks : (bc[b].pc = "send") ~> (bc[b].pc = "done")

\* A call returns after as many send attempts as there are connections, both to
\* the same connection, which left the room and joined it again meanwhile.
C30_Witness ==
    \E b \in DOMAIN bc :
        /\ bc[b].pc = "done"
        /\ ~hist[b].quiet
        /\ Len(hist[b].sent) = NumConns
        /\ hist[b].sent[1].to = hist[b].sent[2].to

====
